---- MODULE Spec2Model ----
(***************************************************************************)
(* Model of llm_owl: the competency-question validator (validator.py) and  *)
(* the generate / validate / fix driver (generate_ontology.py).            *)
(*                                                                         *)
(* A Turtle text is modelled by what the libraries make of it: whether it  *)
(* parses, what the reasoner says of it, and what its graph answers to     *)
(* each SPARQL query.  Python values (None, bool, int, list, str) are      *)
(* tagged records, so that the dynamic type tests of the code are tests    *)
(* the model performs too.                                                 *)
(***************************************************************************)
EXTENDS Integers, Sequences, FiniteSets, TLC

VARIABLES
    entry,          \* which program runs: "generate_ontology" or "validator"
    args,           \* parsed command line
    cqs,            \* content of the competency-question file
    pc,             \* position of the run
    files,          \* <name>.ttl, fixed_output.ttl, validation_report.json
    log,            \* the structured JSON-lines log (stages written to the handler)
    step,           \* llm_fix_and_validate's step argument of the pending call
    content,        \* llm_fix_and_validate's content argument of the pending call
    error_msg,      \* llm_fix_and_validate's error_msg argument of the pending call
    exit,           \* how the process ended: status and cause
    llm_calls,      \* history: call_llm invocations made by llm_fix_and_validate
    llm_failed,     \* history: a call_llm invocation raised
    produced,       \* history: number of candidate documents saved so far
    cycles,         \* history: one record per validate_output / validator pass
    ev_graph,       \* evaluator harness: the graph under evaluation
    ev_out          \* evaluator harness: what validate_with_competency_questions gave

vars == <<entry, args, cqs, pc, files, log, step, content, error_msg, exit,
          llm_calls, llm_failed, produced, cycles, ev_graph, ev_out>>

-----------------------------------------------------------------------------
(* Bounds of the model.                                                    *)

\* longest competency-question list of the evaluator harness
MaxCQ == 3
\* most rows a SELECT of the evaluator harness returns
MaxRows == 2
\* model cap on fix invocations; the code's own bound keeps the run below it
MaxCalls == 6

\* llm_fix_and_validate(..., step=0, max_steps=3)
MaxSteps == 3

-----------------------------------------------------------------------------
(* Python values.                                                          *)

PyNone == [t |-> "none", b |-> FALSE, n |-> 0, s |-> "", items |-> <<>>]
PyBool(v) == [t |-> "bool", b |-> v, n |-> 0, s |-> "", items |-> <<>>]
PyInt(v) == [t |-> "int", b |-> FALSE, n |-> v, s |-> "", items |-> <<>>]
PyStr(v) == [t |-> "str", b |-> FALSE, n |-> 0, s |-> v, items |-> <<>>]
PyList(v) == [t |-> "list", b |-> FALSE, n |-> 0, s |-> "", items |-> v]

\* isinstance(x, int) taken as a test for the exact type int
IsInstanceInt_excludes_bool(x) == x.t = "int"

\* isinstance(x, int): bool is a subclass of int
IsInstanceInt(x) == x.t \in {"int", "bool"}

\* the integer a bool or an int compares as
IntValue(x) == IF x.t = "bool" THEN (IF x.b THEN 1 ELSE 0) ELSE x.n

\* x == y of Python for the values above (1 == True, 0 == False)
PyEq(x, y) ==
    IF IsInstanceInt(x) /\ IsInstanceInt(y) THEN IntValue(x) = IntValue(y)
    ELSE x = y

Digit(d) == CASE d = 0 -> "0" [] d = 1 -> "1" [] d = 2 -> "2" [] d = 3 -> "3"
              [] d = 4 -> "4" [] d = 5 -> "5" [] d = 6 -> "6" [] d = 7 -> "7"
              [] d = 8 -> "8" [] OTHER -> "9"

RECURSIVE NatStr(_)
NatStr(n) == IF n < 10 THEN Digit(n) ELSE NatStr(n \div 10) \o Digit(n % 10)

\* str(x)
PyStrOf(x) ==
    CASE x.t = "str" -> x.s
      [] x.t = "int" -> IF x.n < 0 THEN "-" \o NatStr(-x.n) ELSE NatStr(x.n)
      [] x.t = "bool" -> IF x.b THEN "True" ELSE "False"
      [] OTHER -> "None"

\* set(seq)
RECURSIVE SeqToSet(_)
SeqToSet(q) == IF q = <<>> THEN {} ELSE {Head(q)} \cup SeqToSet(Tail(q))

-----------------------------------------------------------------------------
(* Turtle texts and graphs.                                                *)

\* What a Turtle text is to the libraries: ok (rdflib parses it), cons (what the
\* reasoner finds), ask (answer of the ASK query), rows (rows of the SELECT query,
\* each a tuple of terms given by their str()).
Ttl(ok, cons, ask, rows) == [ok |-> ok, cons |-> cons, ask |-> ask, rows |-> rows]

\* the text of an unparseable document
BadTtl == Ttl(FALSE, "ok", FALSE, <<>>)

\* split_response's "" under the prefixes: parses, and is an empty graph
EmptyTtl == Ttl(TRUE, "ok", FALSE, <<>>)

\* The SPARQL texts of the model: an ASK, a SELECT, a text the query parser
\* rejects, and a SELECT whose evaluation fails while its rows are read.
Queries == {"ASK", "SELECT", "MALFORMED", "LAZYFAIL"}

\* g.query(sparql), with what iterating the result does
Raw(kind, b, rows) == [kind |-> kind, b |-> b, rows |-> rows]

query(g, sparql) ==
    CASE sparql = "ASK" -> Raw("bool", g.ask, <<>>)
      [] sparql = "SELECT" -> Raw("rows", FALSE, g.rows)
      [] sparql = "LAZYFAIL" -> Raw("iter_raises", FALSE, <<>>)
      [] OTHER -> Raw("raises", FALSE, <<>>)

-----------------------------------------------------------------------------
(* validator.py: the evaluator.                                            *)

\* "|".join(str(v) for v in row.asdict().values())
RECURSIVE _row_to_string(_)
_row_to_string(row) ==
    IF row = <<>> THEN ""
    ELSE IF Len(row) = 1 THEN row[1]
    ELSE row[1] \o "|" \o _row_to_string(Tail(row))

\* [_row_to_string(r) for r in res]
RECURSIVE rows_to_strings(_)
rows_to_strings(res) ==
    IF res = <<>> THEN <<>>
    ELSE <<_row_to_string(Head(res))>> \o rows_to_strings(Tail(res))

\* a competency question of the file: cq.get("id"), cq.get("sparql"), cq.get("expected")
CQ(id, sparql, expected) == [id |-> id, sparql |-> sparql, expected |-> expected]

\* the entry a question yields (the keys of the dict; error is None when not set)
Entry(cq, passed, actual, error) ==
    [id |-> cq.id, sparql |-> cq.sparql, expected |-> cq.expected,
     passed |-> passed, actual |-> actual, error |-> error]

\* the ASK branch without the case of an expected that is None
ask_passed_no_unset(expected, actual_bool) == PyEq(expected, PyBool(actual_bool))

\* the ASK branch: True if expected is None and actual_bool else (expected == actual_bool)
ask_passed(expected, actual_bool) ==
    IF expected.t = "none" /\ actual_bool THEN TRUE
    ELSE PyEq(expected, PyBool(actual_bool))

\* the SELECT branch with an integer expected compared to the number of distinct rows
select_passed_counts_distinct(expected, rows) ==
    IF IsInstanceInt(expected) THEN Cardinality(SeqToSet(rows)) = IntValue(expected)
    ELSE IF expected.t = "list"
         THEN SeqToSet(rows) = {PyStrOf(x) : x \in SeqToSet(expected.items)}
    ELSE Len(rows) > 0

\* the SELECT branch with a list expected compared as sorted lists, not as sets
select_passed_list_with_repeats(expected, rows) ==
    IF IsInstanceInt(expected) THEN Len(rows) = IntValue(expected)
    ELSE IF expected.t = "list"
         THEN /\ SeqToSet(rows) = {PyStrOf(x) : x \in SeqToSet(expected.items)}
              /\ Len(rows) = Len(expected.items)
    ELSE Len(rows) > 0

\* the SELECT branch with a default that passes on no rows too
select_passed_default_any(expected, rows) ==
    IF IsInstanceInt(expected) THEN Len(rows) = IntValue(expected)
    ELSE IF expected.t = "list"
         THEN SeqToSet(rows) = {PyStrOf(x) : x \in SeqToSet(expected.items)}
    ELSE Len(rows) >= 0

\* the SELECT branch, on the stringified rows
select_passed(expected, rows) ==
    IF IsInstanceInt(expected) THEN Len(rows) = IntValue(expected)
    ELSE IF expected.t = "list"
         THEN SeqToSet(rows) = {PyStrOf(x) : x \in SeqToSet(expected.items)}
    ELSE Len(rows) > 0

\* validate_with_competency_question: raised is TRUE when the call ends in an
\* exception of its own (nothing is returned then)
validate_with_competency_question(g, cq) ==
    LET res == query(g, cq.sparql) IN
    CASE res.kind = "raises" ->
            [raised |-> FALSE,
             entry |-> Entry(cq, FALSE, PyNone, PyStr("query error"))]
      [] res.kind = "bool" ->
            [raised |-> FALSE,
             entry |-> Entry(cq, ask_passed(cq.expected, res.b), PyBool(res.b), PyNone)]
      [] res.kind = "iter_raises" ->
            [raised |-> TRUE, entry |-> Entry(cq, FALSE, PyNone, PyNone)]
      [] OTHER ->
            LET rows == rows_to_strings(res.rows) IN
            [raised |-> FALSE,
             entry |-> Entry(cq, select_passed(cq.expected, rows), PyList(rows), PyNone)]

\* cq_loop with the result of a failed query counted but not appended
RECURSIVE cq_loop_drops_errors(_, _, _, _)
cq_loop_drops_errors(g, questions, results, passed_count) ==
    IF questions = <<>>
    THEN [raised |-> FALSE, results |-> results, passed_count |-> passed_count]
    ELSE LET output == validate_with_competency_question(g, Head(questions)) IN
         IF output.raised
         THEN [raised |-> TRUE, results |-> results, passed_count |-> passed_count]
         ELSE cq_loop_drops_errors(g, Tail(questions),
                  IF output.entry.error # PyNone THEN results
                  ELSE Append(results, output.entry),
                  IF output.entry.passed THEN passed_count + 1 ELSE passed_count)

\* the loop of validate_with_competency_questions over the questions, from the
\* state (results, passed_count); it stops at the first call that raises
RECURSIVE cq_loop(_, _, _, _)
cq_loop(g, questions, results, passed_count) ==
    IF questions = <<>>
    THEN [raised |-> FALSE, results |-> results, passed_count |-> passed_count]
    ELSE LET output == validate_with_competency_question(g, Head(questions)) IN
         IF output.raised
         THEN [raised |-> TRUE, results |-> results, passed_count |-> passed_count]
         ELSE cq_loop(g, Tail(questions), Append(results, output.entry),
                      IF output.entry.passed THEN passed_count + 1 ELSE passed_count)

Report(total, passed, results) ==
    [summary |-> [total |-> total, passed |-> passed], results |-> results]

NoReport == Report(0, 0, <<>>)

\* validate_with_competency_questions(ttl_text, competency_questions):
\* g.parse raises on a text that does not parse
validate_with_competency_questions(ttl, competency_questions) ==
    IF ~ttl.ok
    THEN [raised |-> TRUE, success |-> FALSE, report |-> NoReport]
    ELSE LET run == cq_loop(ttl, competency_questions, <<>>, 0) IN
         IF run.raised
         THEN [raised |-> TRUE, success |-> FALSE, report |-> NoReport]
         ELSE [raised |-> FALSE,
               success |-> (run.passed_count = Len(competency_questions)),
               report |-> Report(Len(competency_questions), run.passed_count,
                                 run.results)]

\* validate_ttl(ttl_path): True iff rdflib parses the text
validate_ttl(ttl) == ttl.ok

\* check_consistency(graph): the list of issues
check_consistency(g) ==
    CASE g.cons = "inconsistent" -> <<"The ontology is inconsistent">>
      [] g.cons = "classes" -> <<"There are inconsistent classes in the ontology">>
      [] OTHER -> <<>>

\* pretty_print_errors(report): the pass ratio, then one block per failing result
RECURSIVE failing(_)
failing(results) ==
    IF results = <<>> THEN <<>>
    ELSE IF Head(results).passed THEN failing(Tail(results))
    ELSE <<Head(results)>> \o failing(Tail(results))

pretty_print_errors(report) ==
    [kind |-> "report", passed |-> report.summary.passed,
     total |-> report.summary.total, failures |-> failing(report.results)]

\* the other texts an error_msg takes
LoadFailed == [kind |-> "Failed to load Turtle file.", passed |-> 0, total |-> 0,
               failures |-> <<>>]
NoMsg == [kind |-> "None", passed |-> 0, total |-> 0, failures |-> <<>>]

\* truth value of an error_msg: None is false, the texts above are non-empty
Truthy(msg) == msg.kind # "None"

-----------------------------------------------------------------------------
(* generate_ontology.py: files, LLM responses, one validation pass.        *)

\* a .ttl file: the candidate it holds, numbered in the order call_llm gave them
File(exists, gen, ttl) == [exists |-> exists, gen |-> gen, ttl |-> ttl]
NoFile == File(FALSE, 0, BadTtl)

\* validation_report.json: the report, the candidate it is about and the pass
\* (index into cycles) that wrote it
ReportFile(exists, gen, cycle, report) ==
    [exists |-> exists, gen |-> gen, cycle |-> cycle, report |-> report]
NoReportFile == ReportFile(FALSE, 0, 0, NoReport)

\* what call_llm gives: an exception, or a response, which has a "## OWL" section
\* with a ttl code block or not, and the Turtle in that block
Response(owl, ttl) == [raised |-> FALSE, owl |-> owl, ttl |-> ttl]
LLMFailure == [raised |-> TRUE, owl |-> FALSE, ttl |-> EmptyTtl]

\* split_response(content): the block's text, or "" when there is none
split_response(r) == IF r.owl THEN [found |-> TRUE, ttl |-> r.ttl]
                     ELSE [found |-> FALSE, ttl |-> EmptyTtl]

\* f"{prefix_part}\n\n# Generated code\n\n{split_response(content)}": the prefixes
\* are valid Turtle, so the text parses iff the block does
ttl_part(r) == split_response(r).ttl

\* what llm_fix_and_validate is given as content: the text, which candidate it
\* comes from, and whether it is the ttl_part or the raw response
Content(form, gen, ttl) == [form |-> form, gen |-> gen, ttl |-> ttl]
NoContent == Content("none", 0, EmptyTtl)

\* result of one validate_output pass
Pass(ret, msg, parsed, evaluated, success, has_report, report, persisted) ==
    [ret |-> ret, msg |-> msg, parsed |-> parsed, evaluated |-> evaluated,
     success |-> success, has_report |-> has_report, report |-> report,
     persisted |-> persisted]

\* validate_output without the return in the syntax branch: the pass falls through
\* to "All competency questions passed"
validate_output_no_gate(file, questions) ==
    IF ~file.exists
    THEN Pass("raised", NoMsg, FALSE, FALSE, FALSE, FALSE, NoReport, FALSE)
    ELSE IF ~validate_ttl(file.ttl)
    THEN Pass("None", NoMsg, FALSE, FALSE, FALSE, FALSE, NoReport, FALSE)
    ELSE LET v == validate_with_competency_questions(file.ttl, questions) IN
         IF v.raised
         THEN Pass("raised", NoMsg, TRUE, TRUE, FALSE, FALSE, NoReport, FALSE)
         ELSE IF ~v.success
         THEN Pass("error", pretty_print_errors(v.report), TRUE, TRUE, FALSE, TRUE,
                   v.report, TRUE)
         ELSE Pass("None", NoMsg, TRUE, TRUE, TRUE, TRUE, v.report, FALSE)

\* validate_output(tpath, dest) with cq file questions: ret is "None", "error"
\* (an error_msg is returned) or "raised" (an exception leaves the function)
validate_output(file, questions) ==
    IF ~file.exists
    THEN Pass("raised", NoMsg, FALSE, FALSE, FALSE, FALSE, NoReport, FALSE)
    ELSE IF ~validate_ttl(file.ttl)
    THEN Pass("error", LoadFailed, FALSE, FALSE, FALSE, FALSE, NoReport, FALSE)
    ELSE LET v == validate_with_competency_questions(file.ttl, questions) IN
         IF v.raised
         THEN Pass("raised", NoMsg, TRUE, TRUE, FALSE, FALSE, NoReport, FALSE)
         ELSE IF ~v.success
         THEN Pass("error", pretty_print_errors(v.report), TRUE, TRUE, FALSE, TRUE,
                   v.report, TRUE)
         ELSE Pass("None", NoMsg, TRUE, TRUE, TRUE, TRUE, v.report, FALSE)

\* log_report(report, dest): validation_report.json is opened with "w"
log_report(old, p, gen, cycle) ==
    IF p.persisted THEN ReportFile(TRUE, gen, cycle, p.report) ELSE old

\* history record of a pass: which file, whether it was there, the candidate in
\* it, whether the consistency check ran, and what validate_output gave
Cycle(path, file, consistency, p) ==
    [path |-> path, exists |-> file.exists, gen |-> file.gen,
     consistency |-> consistency, ret |-> p.ret,
     msg |-> p.msg, parsed |-> p.parsed, evaluated |-> p.evaluated,
     success |-> p.success, has_report |-> p.has_report, report |-> p.report, persisted |-> p.persisted]

Exit(code, how) == [code |-> code, how |-> how]
Running == Exit(0, "running")

-----------------------------------------------------------------------------
(* Inputs of the runs.                                                     *)

SeqsUpTo(S, n) == UNION {[1..k -> S] : k \in 0..n}

\* the responses the LLM gives in the runs: no OWL block, a block that does not
\* parse, and three graphs
Responses ==
    {Response(FALSE, EmptyTtl),
     Response(TRUE, BadTtl),
     Response(TRUE, Ttl(TRUE, "ok", TRUE, << <<"a">> >>)),
     Response(TRUE, Ttl(TRUE, "classes", TRUE, << <<"a">>, <<"b">> >>)),
     Response(TRUE, Ttl(TRUE, "inconsistent", FALSE, <<>>))}

LLMOutcomes == Responses \cup {LLMFailure}

\* the competency-question files of the runs
CqFiles ==
    {<<>>,
     <<CQ("q1", "ASK", PyNone)>>,
     <<CQ("q1", "ASK", PyBool(TRUE)), CQ("q2", "SELECT", PyInt(2))>>,
     <<CQ("q1", "MALFORMED", PyNone), CQ("q2", "SELECT", PyList(<<PyStr("a")>>))>>,
     <<CQ("q1", "SELECT", PyNone), CQ("q2", "LAZYFAIL", PyNone)>>}

\* the .ttl files a run may find on disk when it generates none
GivenFiles == {NoFile} \cup {File(TRUE, 0, ttl_part(r)) : r \in Responses}

\* inputs of the evaluator on its own
EvalRows == {<<"a">>, <<"b">>}
EvalGraphs ==
    {BadTtl} \cup {Ttl(TRUE, "ok", a, rows) :
                     a \in BOOLEAN, rows \in SeqsUpTo(EvalRows, MaxRows)}
EvalCQs ==
    {CQ("q", "ASK", PyNone), CQ("q", "ASK", PyBool(FALSE)),
     CQ("q", "SELECT", PyInt(1)), CQ("q", "SELECT", PyList(<<PyStr("a")>>)),
     CQ("q", "MALFORMED", PyNone), CQ("q", "LAZYFAIL", PyNone)}
EvalCqLists == SeqsUpTo(EvalCQs, MaxCQ)

\* inputs of the evaluator on a single question: rows of one and of two terms
\* (<<"a", "b">> and <<"a|b">> have the same string), and every shape of expected
\* on an ASK and on a SELECT
QuestionRows == {<<"a">>, <<"b">>, <<"1">>, <<"a", "b">>, <<"a|b">>}
QuestionGraphs ==
    {BadTtl} \cup {Ttl(TRUE, "ok", a, rows) :
                     a \in BOOLEAN, rows \in SeqsUpTo(QuestionRows, MaxRows)}
QuestionExpected ==
    {PyNone, PyBool(TRUE), PyBool(FALSE), PyInt(0), PyInt(1), PyInt(2), PyInt(3),
     PyStr("a"), PyList(<<>>), PyList(<<PyStr("a")>>),
     PyList(<<PyStr("a"), PyStr("b")>>), PyList(<<PyStr("b"), PyStr("a")>>),
     PyList(<<PyStr("a"), PyStr("a"), PyStr("b")>>), PyList(<<PyInt(1)>>),
     PyList(<<PyStr("a|b")>>)}
QuestionCQs ==
    {CQ("q", sparql, expected) : sparql \in {"ASK", "SELECT"},
                                 expected \in QuestionExpected}
    \cup {CQ("q", "MALFORMED", PyNone), CQ("q", "LAZYFAIL", PyNone)}

EvalOut(done, v) ==
    [done |-> done, raised |-> v.raised, success |-> v.success, report |-> v.report]
NoEvalOut == EvalOut(FALSE, [raised |-> FALSE, success |-> FALSE, report |-> NoReport])

-----------------------------------------------------------------------------
(* The runs.  A value an action computes once and uses several times is   *)
(* bound by \E over the singleton set of that value.                       *)

Init ==
    /\ entry \in {"generate_ontology", "validator"}
    /\ args \in [validate_only : BOOLEAN, recursive : BOOLEAN, has_input : BOOLEAN]
    /\ entry = "validator" =>
           args = [validate_only |-> TRUE, recursive |-> FALSE, has_input |-> FALSE]
    /\ cqs \in CqFiles
    /\ pc = "main"
    /\ files \in [out : GivenFiles, fixed : {NoFile}, report : {NoReportFile}]
    /\ (entry = "generate_ontology" /\ ~args.validate_only) => files.out = NoFile
    /\ log = <<>>
    /\ step = 0
    /\ content = NoContent
    /\ error_msg = NoMsg
    /\ exit = Running
    /\ llm_calls = 0
    /\ llm_failed = FALSE
    /\ produced = 0
    /\ cycles = <<>>
    /\ ev_graph = EmptyTtl
    /\ ev_out = NoEvalOut

\* the process ends
Ends(code, how) == pc' = "exited" /\ exit' = Exit(code, how)

\* on_llm_failure with the exception swallowed: the run goes on to main's validation
on_llm_failure_swallowed == pc' = "validate" /\ exit' = exit

\* except Exception: print(...); sys.exit(1)
on_llm_failure == Ends(1, "sys.exit")

\* fix_again without the bound on step
fix_again_unbounded(msg, s, max_steps) == Truthy(msg)

\* fix_again without the test of error_msg
fix_again_ignores_verdict(msg, s, max_steps) == s < max_steps

\* the condition under which llm_fix_and_validate calls itself again
fix_again(msg, s, max_steps) == Truthy(msg) /\ s < max_steps

\* generate_ontology.main up to and including llm_setup_and_validate, without the
\* llm_fix_and_validate call it may end in
llm_setup_and_validate ==
    /\ entry = "generate_ontology"
    /\ pc = "main"
    /\ ~args.validate_only
    /\ UNCHANGED <<entry, args, cqs, log, step, llm_calls, ev_graph, ev_out>>
    /\ IF ~args.has_input
       THEN /\ Ends(2, "sys.exit")
            /\ UNCHANGED <<files, content, error_msg, produced, cycles, llm_failed>>
       ELSE \E r \in LLMOutcomes :
            /\ llm_failed' = r.raised
            /\ IF r.raised
               THEN /\ on_llm_failure
                    /\ UNCHANGED <<files, content, error_msg, produced, cycles>>
               ELSE \E gen \in {produced + 1} :
                    \E doc \in {File(TRUE, gen, ttl_part(r))} :
                    \E p \in {validate_output(doc, cqs)} :
                       /\ produced' = gen
                       /\ cycles' = Append(cycles, Cycle("name.ttl", doc, FALSE, p))
                       /\ files' = [files EXCEPT !.out = doc,
                                      !.report = log_report(@, p, gen, Len(cycles) + 1)]
                       /\ IF p.ret = "raised"
                          THEN /\ Ends(1, "exception")
                               /\ UNCHANGED <<content, error_msg>>
                          ELSE IF Truthy(p.msg) /\ args.recursive
                          THEN /\ pc' = "fix"
                               /\ content' = Content("ttl_part", gen, ttl_part(r))
                               /\ error_msg' = p.msg
                               /\ exit' = exit
                          ELSE /\ pc' = "validate"
                               /\ UNCHANGED <<content, error_msg, exit>>

\* one invocation of llm_fix_and_validate(content, dest, error_msg, step), without
\* the invocation it may end in
llm_fix_and_validate ==
    /\ pc = "fix"
    /\ llm_calls < MaxCalls
    /\ UNCHANGED <<entry, args, cqs, log, ev_graph, ev_out>>
    /\ llm_calls' = llm_calls + 1
    /\ \E r \in LLMOutcomes :
         /\ llm_failed' = r.raised
         /\ IF r.raised
            THEN /\ on_llm_failure
                 /\ UNCHANGED <<files, step, content, error_msg, produced, cycles>>
            ELSE \E gen \in {produced + 1} :
                 \E doc \in {File(TRUE, gen, ttl_part(r))} :
                 \E p \in {validate_output(doc, cqs)} :
                    /\ produced' = gen
                    /\ cycles' = Append(cycles,
                                        Cycle("fixed_output.ttl", doc, FALSE, p))
                    /\ files' = [files EXCEPT !.fixed = doc,
                                   !.report = log_report(@, p, gen, Len(cycles) + 1)]
                    /\ IF p.ret = "raised"
                       THEN /\ Ends(1, "exception")
                            /\ UNCHANGED <<step, content, error_msg>>
                       ELSE IF fix_again(p.msg, step, MaxSteps)
                       THEN /\ step' = step + 1
                            /\ content' = Content("raw_response", gen, ttl_part(r))
                            /\ error_msg' = p.msg
                            /\ UNCHANGED <<pc, exit>>
                       ELSE /\ pc' = "validate"
                            /\ UNCHANGED <<step, content, error_msg, exit>>

\* the file main validates last: os.path.join(args.dest, f"{args.name}.ttl")
main_tpath(fs) == fs.out

\* the status main ends with once its last validate_output has returned
main_status(p) == 0

\* the end of generate_ontology.main: validate_output on <name>.ttl, whose result
\* is dropped, then the process ends
main ==
    /\ entry = "generate_ontology"
    /\ pc = (IF args.validate_only THEN "main" ELSE "validate")
    /\ UNCHANGED <<entry, args, cqs, log, step, content, error_msg, llm_calls,
                   llm_failed, produced, ev_graph, ev_out>>
    /\ \E doc \in {main_tpath(files)} : \E p \in {validate_output(doc, cqs)} :
          /\ cycles' = Append(cycles, Cycle("name.ttl", doc, FALSE, p))
          /\ files' = [files EXCEPT
                         !.report = log_report(@, p, doc.gen, Len(cycles) + 1)]
          /\ IF p.ret = "raised" THEN Ends(1, "exception")
             ELSE Ends(main_status(p), "return")

\* a line of the structured log: emit_log(stage, ...)
LogLine(stage, id, passed, total) ==
    [stage |-> stage, id |-> id, passed |-> passed, total |-> total]

\* the lines the loop over the questions writes for the results it got
RECURSIVE cq_lines(_)
cq_lines(results) ==
    IF results = <<>> THEN <<>>
    ELSE LET e == Head(results) IN
         (IF e.error # PyNone
          THEN <<LogLine("competency_question_error", e.id, FALSE, 0)>> ELSE <<>>)
         \o <<LogLine("competency_question", e.id, e.passed, 0)>>
         \o cq_lines(Tail(results))

\* the stage check_consistency logs
consistency_stage(g) ==
    CASE g.cons = "inconsistent" -> "consistency_error"
      [] g.cons = "classes" -> "consistency_issues"
      [] OTHER -> "consistency_ok"

\* the lines validate_with_competency_questions writes on a text that parses
validation_lines(g, questions) ==
    LET run == cq_loop(g, questions, <<>>, 0) IN
    <<LogLine("CQ_validation_start", "", FALSE, Len(questions))>>
    \o cq_lines(run.results)
    \o (IF run.raised THEN <<>>
        ELSE <<LogLine("CQ_validation_end", "", run.passed_count = Len(questions),
                       Len(questions))>>)

\* validator.main: validate_ttl (result dropped), Graph().parse, check_consistency
\* (result dropped), validate_with_competency_questions_file (result dropped)
validator_main ==
    /\ entry = "validator"
    /\ pc = "main"
    /\ UNCHANGED <<entry, args, cqs, files, step, content, error_msg, llm_calls,
                   llm_failed, produced, ev_graph, ev_out>>
    /\ \E doc \in {files.out} :
       IF ~doc.exists
       THEN /\ log' = log
            /\ cycles' = Append(cycles, Cycle("ttl_file", doc, FALSE,
                             Pass("raised", NoMsg, FALSE, FALSE, FALSE, FALSE,
                                  NoReport, FALSE)))
            /\ Ends(1, "exception")
       ELSE IF ~validate_ttl(doc.ttl)
       THEN /\ log' = log \o <<LogLine("ttl_invalid", "", FALSE, 0)>>
            /\ cycles' = Append(cycles, Cycle("ttl_file", doc, FALSE,
                             Pass("raised", NoMsg, FALSE, FALSE, FALSE, FALSE,
                                  NoReport, FALSE)))
            /\ Ends(1, "exception")
       ELSE \E issues \in {check_consistency(doc.ttl)} :
            \E v \in {validate_with_competency_questions(doc.ttl, cqs)} :
               /\ log' = log \o <<LogLine("ttl_valid", "", TRUE, 0),
                                  LogLine(consistency_stage(doc.ttl), "",
                                          issues = <<>>, Len(issues))>>
                             \o validation_lines(doc.ttl, cqs)
               /\ cycles' = Append(cycles, Cycle("ttl_file", doc, TRUE,
                                Pass(IF v.raised THEN "raised" ELSE "dropped", NoMsg,
                                     TRUE, TRUE, v.success, ~v.raised, v.report,
                                     FALSE)))
               /\ IF v.raised THEN Ends(1, "exception") ELSE Ends(0, "return")

Next ==
    \/ llm_setup_and_validate
    \/ llm_fix_and_validate
    \/ main
    \/ validator_main

Spec == Init /\ [][Next]_vars

\* the process is sequential and every call it makes returns or raises
FairSpec == Spec /\ WF_vars(Next)

-----------------------------------------------------------------------------
(* The evaluator on its own: validate_with_competency_questions applied to *)
(* a graph and a question list drawn from the inputs above.                *)

EvalInit ==
    /\ entry = "evaluator"
    /\ args = [validate_only |-> TRUE, recursive |-> FALSE, has_input |-> FALSE]
    /\ cqs \in EvalCqLists
    /\ pc = "main"
    /\ files = [out |-> NoFile, fixed |-> NoFile, report |-> NoReportFile]
    /\ log = <<>>
    /\ step = 0
    /\ content = NoContent
    /\ error_msg = NoMsg
    /\ exit = Running
    /\ llm_calls = 0
    /\ llm_failed = FALSE
    /\ produced = 0
    /\ cycles = <<>>
    /\ ev_graph \in EvalGraphs
    /\ ev_out = NoEvalOut

evaluate ==
    /\ entry = "evaluator"
    /\ pc = "main"
    /\ pc' = "evaluated"
    /\ ev_out' = EvalOut(TRUE, validate_with_competency_questions(ev_graph, cqs))
    /\ UNCHANGED <<entry, args, cqs, files, log, step, content, error_msg, exit,
                   llm_calls, llm_failed, produced, cycles, ev_graph>>

EvalNext == evaluate

EvalSpec == EvalInit /\ [][EvalNext]_vars

\* the evaluator applied to a list of one question
QuestionInit ==
    /\ entry = "evaluator"
    /\ args = [validate_only |-> TRUE, recursive |-> FALSE, has_input |-> FALSE]
    /\ cqs \in {<<cq>> : cq \in QuestionCQs}
    /\ pc = "main"
    /\ files = [out |-> NoFile, fixed |-> NoFile, report |-> NoReportFile]
    /\ log = <<>>
    /\ step = 0
    /\ content = NoContent
    /\ error_msg = NoMsg
    /\ exit = Running
    /\ llm_calls = 0
    /\ llm_failed = FALSE
    /\ produced = 0
    /\ cycles = <<>>
    /\ ev_graph \in QuestionGraphs
    /\ ev_out = NoEvalOut

QuestionSpec == QuestionInit /\ [][EvalNext]_vars

-----------------------------------------------------------------------------
(* Properties.                                                             *)

Last(q) == q[Len(q)]

\* the passes of the run made on a file that was there
Passes == {i \in DOMAIN cycles : cycles[i].exists}

\* a pass is Accepted: the document parsed and every question passed
Accepted(c) == c.parsed /\ c.has_report /\ c.report.summary.passed = c.report.summary.total

\* C1: with the retry flag set, a generate-then-validate run makes at most MaxSteps
\* LLM fix invocations and at most MaxSteps + 1 validation passes in total.
C1_AtMostMaxAttempts ==
    (entry = "generate_ontology" /\ args.recursive)
        => (llm_calls <= MaxSteps /\ Len(cycles) <= MaxSteps + 1)

\* C2: every run ends: whatever the LLM returns, the process eventually exits.
C2_Terminates == <>(pc = "exited")

\* C2 witness: a run in which every fix was rejected has ended, after the last
\* invocation the step bound allows.
C2_ExhaustedRunEnded ==
    /\ pc = "exited"
    /\ exit.how = "return"
    /\ llm_calls = MaxSteps + 1
    /\ \A i \in DOMAIN cycles : cycles[i].ret = "error"

\* C3: in both programs, a pass on a document that does not parse runs neither the
\* consistency check nor the evaluator, and ends Rejected (an error_msg is returned).
C3_SyntaxGate ==
    \A i \in Passes :
        ~cycles[i].parsed =>
            /\ ~cycles[i].consistency
            /\ ~cycles[i].evaluated
            /\ cycles[i].ret = "error"

\* C4: a validate_output pass that returns gives None (Accepted) iff the document
\* parsed and passed = total, and an error_msg otherwise; with no questions a
\* document that parses is Accepted; a fix is pending only after a Rejected pass.
C4_AcceptedIff ==
    /\ \A i \in Passes :
         (entry = "generate_ontology" /\ cycles[i].ret # "raised") =>
            /\ cycles[i].ret = "None" <=> Accepted(cycles[i])
            /\ cycles[i].ret # "None" => (cycles[i].ret = "error" /\ Truthy(cycles[i].msg))
            /\ (cqs = <<>> /\ cycles[i].parsed) => cycles[i].ret = "None"
    /\ pc = "fix" => (cycles # <<>> /\ Last(cycles).ret = "error")

\* C4 witness: a run with a Rejected pass on a document that parses, then an
\* Accepted pass on a later candidate with questions to answer.
C4_RejectedThenAccepted ==
    \E i, j \in Passes :
        /\ i < j
        /\ cycles[i].parsed /\ cycles[i].ret = "error"
        /\ cycles[j].ret = "None" /\ cycles[j].report.summary.total > 0
        /\ cycles[j].gen > cycles[i].gen

\* C5: when a run with retries has ended, the last pass made and the persisted
\* validation_report.json are about the last candidate the LLM produced.
C5_FinalReportOfLastCandidate ==
    (entry = "generate_ontology" /\ args.recursive /\ llm_calls > 0
     /\ pc = "exited" /\ exit.how = "return")
        => /\ Last(cycles).gen = produced
           /\ files.report.exists => files.report.gen = produced

\* a pass's report is on record: validation_report.json holds it, or (validator.py)
\* the structured log holds its lines up to CQ_validation_end
Recorded(i) ==
    \/ /\ files.report.exists
       /\ files.report.cycle = i
       /\ files.report.report = cycles[i].report
    \/ /\ entry = "validator"
       /\ \E k \in DOMAIN log : log[k].stage = "CQ_validation_end"

\* C6: every report a pass has recorded stays on record: recording the report of a
\* later pass never replaces or drops the report of an earlier one.
C6_ReportsNeverOverwritten ==
    \A i \in Passes : cycles[i].persisted => Recorded(i)

\* C7: a pass on a document that does not parse yields a report with no results and
\* summary total = passed = 0; a pass on a document that parses, when it returns,
\* yields a report with one result per question.
C7_AlwaysAReport ==
    \A i \in Passes :
        /\ ~cycles[i].parsed =>
              /\ cycles[i].has_report
              /\ cycles[i].report = NoReport
        /\ (cycles[i].parsed /\ cycles[i].ret # "raised") =>
              /\ cycles[i].has_report
              /\ Len(cycles[i].report.results) = Len(cqs)

\* C8: the process exits with status 0 iff the last pass of the run was Accepted.
C8_ExitZeroIffAccepted ==
    pc = "exited" => (exit.code = 0 <=> (cycles # <<>> /\ Accepted(Last(cycles))))

\* C9: once call_llm has raised, the process has exited with a non-zero status; the
\* failing invocation validates nothing and saves nothing, and no LLM invocation or
\* validation pass follows it.
C9_ProducerFailureStops ==
    /\ [](llm_failed => (pc = "exited" /\ exit.code # 0))
    /\ [][llm_failed' => (cycles' = cycles /\ produced' = produced /\ files' = files)]_vars
    /\ [][llm_failed => (llm_calls' = llm_calls /\ cycles' = cycles)]_vars

\* C9 witness: call_llm raised in the middle of the fix loop, and the run is over.
C9_FailedMidLoop ==
    /\ llm_failed
    /\ llm_calls >= 2
    /\ pc = "exited"
    /\ Len(cycles) = llm_calls

\* C10: a report validate_with_competency_questions returns has
\* 0 <= passed <= total = len(results) = len(questions), passed counts the results
\* that passed, and results[i] is what the i-th question yields.
C10_ReportShape ==
    (ev_out.done /\ ~ev_out.raised) =>
        LET r == ev_out.report IN
        /\ 0 <= r.summary.passed
        /\ r.summary.passed <= r.summary.total
        /\ r.summary.total = Len(r.results)
        /\ Len(r.results) = Len(cqs)
        /\ r.summary.passed = Cardinality({i \in DOMAIN r.results : r.results[i].passed})
        /\ \A i \in DOMAIN r.results :
              r.results[i] = validate_with_competency_question(ev_graph, cqs[i]).entry
        /\ ev_out.success <=> (r.summary.passed = r.summary.total)

\* C10 witness: a returned report over three questions with a pass, a mismatch and
\* an execution error.
C10_MixedOutcomes ==
    /\ ev_out.done /\ ~ev_out.raised
    /\ Len(cqs) = 3
    /\ \E i, j, k \in DOMAIN ev_out.report.results :
          /\ ev_out.report.results[i].passed
          /\ ~ev_out.report.results[j].passed /\ ev_out.report.results[j].error = PyNone
          /\ ev_out.report.results[k].error # PyNone

\* C11: on a graph that parses, the evaluation of a question list always returns a
\* report with one result per question, and a question whose query fails to execute,
\* when it is submitted or while its rows are read, has passed = False, an error and
\* actual = None in it.
C11_FailedQueryNeverAborts ==
    (ev_out.done /\ ev_graph.ok) =>
        /\ ~ev_out.raised
        /\ Len(ev_out.report.results) = Len(cqs)
        /\ \A i \in DOMAIN cqs :
              cqs[i].sparql \in {"MALFORMED", "LAZYFAIL"} =>
                 /\ ~ev_out.report.results[i].passed
                 /\ ev_out.report.results[i].error # PyNone
                 /\ ev_out.report.results[i].actual = PyNone

\* the question of a single-question evaluation that returned, and its result
TheQuestion == cqs[1]
TheResult == ev_out.report.results[1]
Answered(sparql) ==
    /\ ev_out.done /\ ~ev_out.raised
    /\ Len(cqs) = 1
    /\ TheQuestion.sparql = sparql

\* the strings of the raw rows of the graph under evaluation
RowStrings == {_row_to_string(ev_graph.rows[k]) : k \in DOMAIN ev_graph.rows}

\* C12: a query whose raw result is a boolean passes iff the result is true when
\* expected is unset or True, and iff it is false when expected is False; actual is
\* the raw boolean.
C12_AskSemantics ==
    Answered("ASK") =>
        /\ TheResult.actual = PyBool(ev_graph.ask)
        /\ TheResult.error = PyNone
        /\ TheQuestion.expected = PyNone => (TheResult.passed <=> ev_graph.ask)
        /\ TheQuestion.expected = PyBool(TRUE) => (TheResult.passed <=> ev_graph.ask)
        /\ TheQuestion.expected = PyBool(FALSE) => (TheResult.passed <=> ~ev_graph.ask)

\* C12 witness: an ASK with expected unset on a graph where it is true has passed.
C12_UnsetAskTrue ==
    /\ Answered("ASK")
    /\ TheQuestion.expected = PyNone
    /\ ev_graph.ask
    /\ TheResult.passed

\* C13: a row query with an integer expected n passes iff the number of raw rows is
\* n, rows of the same string counted each; actual lists the string of every row, in
\* order, whether the question passes or not.
C13_IntCountsRawRows ==
    (Answered("SELECT") /\ TheQuestion.expected.t = "int") =>
        /\ TheResult.passed <=> (Len(ev_graph.rows) = TheQuestion.expected.n)
        /\ TheResult.actual.t = "list"
        /\ Len(TheResult.actual.items) = Len(ev_graph.rows)
        /\ \A k \in DOMAIN ev_graph.rows :
              TheResult.actual.items[k] = _row_to_string(ev_graph.rows[k])

\* C13 witness: two different rows of the same string, expected 2: passed, and
\* actual holds the string twice.
C13_DuplicatesCounted ==
    /\ Answered("SELECT")
    /\ TheQuestion.expected = PyInt(2)
    /\ ev_graph.rows = << <<"a", "b">>, <<"a|b">> >>
    /\ TheResult.passed
    /\ TheResult.actual.items = <<"a|b", "a|b">>

\* C14: a row query with a list expected passes iff the set of the strings of the
\* rows equals the set of the str() of the expected values, whatever the order and
\* the repetitions on either side.
C14_ListComparesSets ==
    (Answered("SELECT") /\ TheQuestion.expected.t = "list") =>
        (TheResult.passed <=>
            RowStrings = {PyStrOf(TheQuestion.expected.items[k]) :
                             k \in DOMAIN TheQuestion.expected.items})

\* C14 witness: rows b, a against expected [a, a, b] have passed.
C14_OrderAndRepeatsIgnored ==
    /\ Answered("SELECT")
    /\ TheQuestion.expected = PyList(<<PyStr("a"), PyStr("a"), PyStr("b")>>)
    /\ ev_graph.rows = << <<"b">>, <<"a">> >>
    /\ TheResult.passed

\* C15: a row query with expected unset passes iff at least one row is returned.
C15_UnsetNeedsARow ==
    (Answered("SELECT") /\ TheQuestion.expected = PyNone) =>
        (TheResult.passed <=> Len(ev_graph.rows) >= 1)

\* C15 witness: expected unset and no row: not passed.
C15_NoRowFails ==
    /\ Answered("SELECT")
    /\ TheQuestion.expected = PyNone
    /\ ev_graph.rows = <<>>
    /\ ~TheResult.passed

\* C16: every pass on a document that parses runs the consistency check, records its
\* outcome, and then runs the competency questions, whatever the check found.
C16_ConsistencyAdvisory ==
    \A i \in Passes :
        cycles[i].parsed =>
            /\ cycles[i].consistency
            /\ cycles[i].evaluated
            /\ \E k \in DOMAIN log :
                  log[k].stage \in {"consistency_ok", "consistency_issues",
                                    "consistency_error"}

\* the file the last pass validated
LastValidated ==
    IF Last(cycles).path = "fixed_output.ttl" THEN files.fixed ELSE files.out

\* C18: when llm_fix_and_validate is about to call the LLM, its content is the
\* Turtle document the last pass validated and its error_msg is what that pass
\* returned; the last pass was on the candidate the LLM produced last.
C18_FixGetsValidatedDocument ==
    pc = "fix" =>
        /\ cycles # <<>>
        /\ Last(cycles).gen = produced
        /\ error_msg = Last(cycles).msg
        /\ content.gen = Last(cycles).gen
        /\ content.ttl = LastValidated.ttl
        /\ content.form = "ttl_part"

\* C19: llm_fix_and_validate calls the LLM only when --recursive is set and the last
\* pass returned an error_msg; without --recursive it is never called; once a pass
\* of the run is Accepted it is not called again.
C19_FixOnlyAfterRejected ==
    /\ [](~args.recursive => llm_calls = 0)
    /\ [][llm_calls' # llm_calls =>
             /\ args.recursive
             /\ cycles # <<>>
             /\ Last(cycles).ret = "error"
             /\ ~Accepted(Last(cycles))]_vars
    /\ [][(\E i \in DOMAIN cycles : cycles[i].ret = "None") =>
             llm_calls' = llm_calls]_vars

\* C19 witness: the first fix was Accepted, and the run has ended with that one
\* invocation.
C19_StoppedAfterAcceptedFix ==
    /\ args.recursive
    /\ pc = "exited"
    /\ llm_calls = 1
    /\ Len(cycles) = 3
    /\ cycles[1].ret = "error"
    /\ cycles[2].path = "fixed_output.ttl" /\ cycles[2].ret = "None"

\* C20: a boolean expected on a row query is a row count (True is 1, False is 0),
\* and an integer expected of 1 or 0 on a query whose raw result is a boolean passes
\* iff the result is true or false respectively.
C20_BoolIsAnInt ==
    /\ (Answered("SELECT") /\ TheQuestion.expected = PyBool(TRUE)) =>
           (TheResult.passed <=> Len(ev_graph.rows) = 1)
    /\ (Answered("SELECT") /\ TheQuestion.expected = PyBool(FALSE)) =>
           (TheResult.passed <=> Len(ev_graph.rows) = 0)
    /\ (Answered("ASK") /\ TheQuestion.expected = PyInt(1)) =>
           (TheResult.passed <=> ev_graph.ask)
    /\ (Answered("ASK") /\ TheQuestion.expected = PyInt(0)) =>
           (TheResult.passed <=> ~ev_graph.ask)

\* C20 witness: expected True on a row query that returned two rows: not passed.
C20_TrueAgainstTwoRows ==
    /\ Answered("SELECT")
    /\ TheQuestion.expected = PyBool(TRUE)
    /\ Len(ev_graph.rows) = 2
    /\ ~TheResult.passed

====
